---------------------------- MODULE Spec2Model ----------------------------
(***************************************************************************)
(* Model of the progression helpers of the Humor Memory Game backend       *)
(* (src/backend/routes/scores.js): getUserAchievements,                    *)
(* getGamePerformance and getProgressToNextLevel.  Emoji in the code's     *)
(* literals are written as their code points.                              *)
(*                                                                         *)
(* A behaviour fixes the arguments of one helper in its initial state and  *)
(* then calls that helper; what each call returned is kept in the state.   *)
(* JavaScript values are modelled by what the operators applied to them    *)
(* do: a value is undefined, null or a number, and the relational          *)
(* operators convert their operands with ToNumber.                         *)
(***************************************************************************)
EXTENDS Integers, Sequences, FiniteSets

VARIABLES
    callee,         \* the helper this behaviour calls
    userStats,      \* argument userStats of getUserAchievements
    calls,          \* what the calls of getUserAchievements made so far returned, oldest first
    score,          \* argument score of getGamePerformance
    difficulty,     \* argument difficulty of getGamePerformance
    performance,    \* what getGamePerformance returned (a sequence of length <= 1)
    bestScore,      \* argument bestScore of getProgressToNextLevel
    progressResult, \* what getProgressToNextLevel returned (length <= 1)
    players,        \* the userStats of two players, whose messages and progress are compared
    messages,       \* what getMotivationalMessage returned for the players, in order
    progresses,     \* what getProgressToNextLevel returned for the players, in order
    evaluations     \* what the last two calls of getUserAchievements along
                    \* statistics updates returned, the older one first

helperVars ==
    <<callee, userStats, calls, score, difficulty, performance, bestScore,
      progressResult, players, messages, progresses, evaluations>>

\* The database module (models/database) while it is loaded and once it is
\* required by a caller.
VARIABLES
    modulePc,       \* the statement of the module's evaluation that runs next
    objects,        \* the objects the module created: prototype and own properties
    copied,         \* how many names the constructor's forEach has visited
    resolved        \* the properties callers looked up on the exported singleton

moduleVars == <<modulePc, objects, copied, resolved>>

\* The users table and the calls of UserQueries.createOrGetUser in flight.
VARIABLES
    uniqueUsernames, \* whether the users table rejects a second row of a username
    users,           \* the rows of the users table, in insertion order
    callers,         \* for each caller, where its createOrGetUser call is
    insertLog        \* the INSERT statements the database executed, in order

userVars == <<uniqueUsernames, users, callers, insertLog>>

\* The server process: startServer, initializeServices, gracefulShutdown.
VARIABLES
    startPc,        \* where startServer is
    servicesReady,  \* what initializeServices returned, "unset" before it returns
    shutdowns,      \* one gracefulShutdown call per signal received, in order
    exitCode,       \* <<code>> once process.exit(code) ran, <<>> before
    log             \* the calls made and the completions received, in order

serverVars == <<startPc, servicesReady, shutdowns, exitCode, log>>

\* Database.transaction: the pool and the transactions in flight.
VARIABLES
    held,           \* the clients checked out of the pool
    transactions    \* for each transaction, where it is and what it did on its client

transactionVars == <<held, transactions>>

systemVars == <<moduleVars, userVars, serverVars, transactionVars>>

\* All variables but those of one part.
notModuleVars == <<helperVars, userVars, serverVars, transactionVars>>
notUserVars == <<helperVars, moduleVars, serverVars, transactionVars>>
notServerVars == <<helperVars, moduleVars, userVars, transactionVars>>
notTransactionVars == <<helperVars, moduleVars, userVars, serverVars>>

vars == <<helperVars, systemVars>>

-----------------------------------------------------------------------------
(* Bounds of the model *)

\* Arguments are drawn from the integers within Near of every threshold the
\* code compares them with, and within Near of 0.
Near == 1

\* How many times getUserAchievements is called in one behaviour.
MaxCalls == 2

-----------------------------------------------------------------------------
(* JavaScript values *)

Undefined == [t |-> "undefined", v |-> 0]
Null == [t |-> "null", v |-> 0]
Num(n) == [t |-> "number", v |-> n]

\* x >= n for a number n: ToNumber(undefined) is NaN and every comparison
\* with NaN is false; ToNumber(null) is +0.
JsGE(x, n) ==
    CASE x.t = "number" -> x.v >= n
      [] x.t = "null" -> 0 >= n
      [] OTHER -> FALSE

\* x >= y for a number x and any value y.
JsGEv(x, y) ==
    CASE y.t = "number" -> JsGE(x, y.v)
      [] y.t = "null" -> JsGE(x, 0)
      [] OTHER -> FALSE

\* x <= n for a number n.
JsLE(x, n) ==
    CASE x.t = "number" -> x.v <= n
      [] x.t = "null" -> 0 <= n
      [] OTHER -> FALSE

\* x === n for a number n: no conversion.
JsStrictEq(x, n) == x.t = "number" /\ x.v = n

\* ToBoolean(x): undefined, null and 0 are falsy.
Truthy(x) == x.t = "number" /\ x.v # 0

-----------------------------------------------------------------------------
(* getUserAchievements *)

\* One element of the achievements array.  title, description and icon are
\* literals fixed by the id and are left out; unlockedAt is
\* userStats.last_played.
Achievement(id, rarity, stats) ==
    [id |-> id, rarity |-> rarity, unlockedAt |-> stats.last_played]

\* if (cond) { achievements.push({...}) }
PushIf(achievements, cond, id, rarity, stats) ==
    IF cond THEN Append(achievements, Achievement(id, rarity, stats))
    ELSE achievements

\* Mutant: the array is declared once, outside the function, and so still
\* holds what the previous call pushed.
SharedAchievementsArray ==
    IF calls = <<>> THEN <<>> ELSE calls[Len(calls)].value

\* const achievements = [] : a new array in every call.
NewAchievementsArray == <<>>

\* Mutant: ten_games only below the next tier.
GamesPlayedAchievementsOneTier(achievements, stats) ==
    LET a1 == PushIf(achievements,
                     JsGE(stats.total_games, 10) /\ ~JsGE(stats.total_games, 50),
                     "ten_games", "common", stats)
        a2 == PushIf(a1, JsGE(stats.total_games, 50), "fifty_games", "uncommon", stats)
    IN  PushIf(a2, JsGE(stats.total_games, 100), "hundred_games", "rare", stats)

\* Games Played Achievements: three independent ifs.
GamesPlayedAchievements(achievements, stats) ==
    LET a1 == PushIf(achievements, JsGE(stats.total_games, 10), "ten_games", "common", stats)
        a2 == PushIf(a1, JsGE(stats.total_games, 50), "fifty_games", "uncommon", stats)
    IN  PushIf(a2, JsGE(stats.total_games, 100), "hundred_games", "rare", stats)

\* Mutant: the three tests chained with else-if from the highest tier down,
\* so that a tier suppresses the lower ones.
ScoreAchievementsElseIf(achievements, stats) ==
    IF JsGE(stats.best_score, 300)
    THEN PushIf(achievements, TRUE, "score_300", "legendary", stats)
    ELSE IF JsGE(stats.best_score, 200)
    THEN PushIf(achievements, TRUE, "score_200", "uncommon", stats)
    ELSE PushIf(achievements, JsGE(stats.best_score, 100), "score_100", "common", stats)

\* Score Achievements.
ScoreAchievements(achievements, stats) ==
    LET a1 == PushIf(achievements, JsGE(stats.best_score, 100), "score_100", "common", stats)
        a2 == PushIf(a1, JsGE(stats.best_score, 200), "score_200", "uncommon", stats)
    IN  PushIf(a2, JsGE(stats.best_score, 300), "score_300", "legendary", stats)

\* Mutant: the two blocks in the other order.
SpeedAchievementsSwapped(achievements, stats) ==
    LET a1 == PushIf(achievements,
                     Truthy(stats.best_time) /\ JsLE(stats.best_time, 30000),
                     "lightning_fast", "legendary", stats)
    IN  PushIf(a1, Truthy(stats.best_time) /\ JsLE(stats.best_time, 60000),
               "speed_demon", "rare", stats)

\* Speed Achievements: userStats.best_time && userStats.best_time <= limit.
SpeedAchievements(achievements, stats) ==
    LET a1 == PushIf(achievements,
                     Truthy(stats.best_time) /\ JsLE(stats.best_time, 60000),
                     "speed_demon", "rare", stats)
    IN  PushIf(a1, Truthy(stats.best_time) /\ JsLE(stats.best_time, 30000),
               "lightning_fast", "legendary", stats)

\* Mutant: rank < 10 and rank < 3 in place of <=.
RankingAchievementsStrict(achievements, stats) ==
    LET a1 == PushIf(achievements, JsLE(stats.rank, 9), "top_ten", "epic", stats)
        a2 == PushIf(a1, JsLE(stats.rank, 2), "podium", "legendary", stats)
    IN  PushIf(a2, JsStrictEq(stats.rank, 1), "champion", "legendary", stats)

\* Ranking Achievements: userStats.rank <= 10, <= 3, === 1, with no test
\* that rank is present.
RankingAchievements(achievements, stats) ==
    LET a1 == PushIf(achievements, JsLE(stats.rank, 10), "top_ten", "epic", stats)
        a2 == PushIf(a1, JsLE(stats.rank, 3), "podium", "legendary", stats)
    IN  PushIf(a2, JsStrictEq(stats.rank, 1), "champion", "legendary", stats)

\* The body of the try block.  Reading a property of null (or undefined)
\* throws a TypeError at the first test, before anything is pushed.
TryBlock(achievements, stats) ==
    IF stats.t # "object"
    THEN [threw |-> TRUE, achievements |-> achievements]
    ELSE [threw |-> FALSE,
          achievements |->
              RankingAchievements(
                  SpeedAchievements(
                      ScoreAchievements(
                          GamesPlayedAchievements(achievements, stats), stats),
                      stats),
                  stats)]

\* Mutant: no catch block, so the TypeError rejects the promise.
getUserAchievementsNoCatch(username, stats) ==
    LET r == TryBlock(NewAchievementsArray, stats)
    IN  IF r.threw THEN [completion |-> "rejected", value |-> <<>>]
        ELSE [completion |-> "resolved", value |-> r.achievements]

\* async function getUserAchievements(username, userStats): the try block
\* returns achievements and so does the catch block, so the promise is
\* resolved on both paths.
getUserAchievements(username, stats) ==
    LET r == TryBlock(NewAchievementsArray, stats)
    IN  [completion |-> "resolved", value |-> r.achievements]

-----------------------------------------------------------------------------
(* getGamePerformance *)

\* const thresholds = { easy: ..., medium: ..., hard: ..., expert: ... }
thresholds ==
    [easy |-> [excellent |-> Num(180), good |-> Num(140), average |-> Num(100)],
     medium |-> [excellent |-> Num(220), good |-> Num(180), average |-> Num(140)],
     hard |-> [excellent |-> Num(280), good |-> Num(220), average |-> Num(180)],
     expert |-> [excellent |-> Num(350), good |-> Num(280), average |-> Num(220)]]

\* thresholds is an object literal, so a key it does not own is looked up in
\* Object.prototype, whose properties are functions (and, for __proto__,
\* Object.prototype itself).
ObjectPrototypeKeys ==
    {"constructor", "toString", "toLocaleString", "valueOf", "hasOwnProperty",
     "isPrototypeOf", "propertyIsEnumerable", "__proto__", "__defineGetter__",
     "__defineSetter__", "__lookupGetter__", "__lookupSetter__"}

\* thresholds[difficulty]: the own property, or the inherited one (an object
\* with no excellent, good or average property), or undefined.
GetThresholdsProperty(key) ==
    IF key \in DOMAIN thresholds
    THEN [t |-> "object", excellent |-> thresholds[key].excellent,
          good |-> thresholds[key].good, average |-> thresholds[key].average]
    ELSE IF key \in ObjectPrototypeKeys
    THEN [t |-> "object", excellent |-> Undefined, good |-> Undefined,
          average |-> Undefined]
    ELSE [t |-> "undefined", excellent |-> Undefined, good |-> Undefined,
          average |-> Undefined]

\* const threshold = thresholds[difficulty] || thresholds.easy : every
\* object is truthy.
SelectThreshold(key) ==
    IF GetThresholdsProperty(key).t = "object"
    THEN GetThresholdsProperty(key)
    ELSE GetThresholdsProperty("easy")

\* The emoji are written as their code points.
Excellent == [rating |-> "Excellent", emoji |-> "U+1F31F", color |-> "#FFD700"]
Good == [rating |-> "Good", emoji |-> "U+1F44D", color |-> "#90EE90"]
Average == [rating |-> "Average", emoji |-> "U+1F60A", color |-> "#87CEEB"]
KeepTrying == [rating |-> "Keep Trying", emoji |-> "U+1F4AA", color |-> "#FFA07A"]

\* Mutant: score > threshold.excellent in place of >=.
RateStrict(s, threshold) ==
    IF s.v # threshold.excellent.v /\ JsGEv(s, threshold.excellent) THEN Excellent
    ELSE IF JsGEv(s, threshold.good) THEN Good
    ELSE IF JsGEv(s, threshold.average) THEN Average
    ELSE KeepTrying

\* The if / else-if chain, from excellent down.
Rate(s, threshold) ==
    IF JsGEv(s, threshold.excellent) THEN Excellent
    ELSE IF JsGEv(s, threshold.good) THEN Good
    ELSE IF JsGEv(s, threshold.average) THEN Average
    ELSE KeepTrying

\* function getGamePerformance(score, difficulty).  A missing difficulty is
\* undefined, which as a property key is the string "undefined".
getGamePerformance(s, key) == Rate(Num(s), SelectThreshold(key))

-----------------------------------------------------------------------------
(* Numbers that are not integers *)

(***************************************************************************)
(* A JavaScript number is an IEEE 754 double.  Sums and differences of the *)
(* small integers of this code are exact; a quotient and a product are the *)
(* exact result rounded to the nearest double, ties to even.  A double     *)
(* that is not zero is modelled by its sign, its exponent e and the        *)
(* SignificandBits bits b1 b2 ... of its significand, b1 = 1: its value is *)
(* (b1.b2b3...) * 2^e.                                                     *)
(***************************************************************************)
SignificandBits == 53

Zeros(k) == [i \in 1..k |-> 0]

DZero == [zero |-> TRUE, neg |-> FALSE, exp |-> 0, bits |-> Zeros(SignificandBits)]

RECURSIVE BitsOf(_)
\* The binary digits of n >= 0, most significant first (none for 0).
BitsOf(n) == IF n = 0 THEN <<>> ELSE Append(BitsOf(n \div 2), n % 2)

\* The double of an integer n with |n| < 2^31: exact.
FromInt(n) ==
    IF n = 0 THEN DZero
    ELSE LET m == IF n < 0 THEN -n ELSE n
             b == BitsOf(m)
         IN  [zero |-> FALSE, neg |-> n < 0, exp |-> Len(b) - 1,
              bits |-> b \o Zeros(SignificandBits - Len(b))]

\* bits + 1, as [bits, carry]: the last 0 becomes 1 and the 1s after it
\* become 0; carry is 1 when every bit was 1.
Increment(bits) ==
    IF \A i \in 1..Len(bits) : bits[i] = 1
    THEN [bits |-> Zeros(Len(bits)), carry |-> 1]
    ELSE LET z == CHOOSE i \in 1..Len(bits) :
                      bits[i] = 0 /\ \A j \in (i + 1)..Len(bits) : bits[j] = 1
         IN  [bits |-> [i \in 1..Len(bits) |->
                           IF i < z THEN bits[i] ELSE IF i = z THEN 1 ELSE 0],
              carry |-> 0]

\* The significand bits moved one unit in the last place away from zero.
RoundUp(neg, exp, bits) ==
    LET r == Increment(bits)
    IN  IF r.carry = 1
        THEN [zero |-> FALSE, neg |-> neg, exp |-> exp + 1,
              bits |-> <<1>> \o Zeros(SignificandBits - 1)]
        ELSE [zero |-> FALSE, neg |-> neg, exp |-> exp, bits |-> r.bits]

RECURSIVE ShiftsUp(_, _)
\* The least s with x * 2^s >= d, for 0 < x.
ShiftsUp(x, d) == IF x >= d THEN 0 ELSE 1 + ShiftsUp(2 * x, d)

RECURSIVE Pow2Mod(_, _)
\* 2^k modulo den, by repeated squaring (den < 2^15).
Pow2Mod(k, den) ==
    IF k = 0 THEN 1 % den
    ELSE LET h == Pow2Mod(k \div 2, den)
         IN  (((h * h) % den) * (IF k % 2 = 1 THEN 2 ELSE 1)) % den

\* The remainder left after k binary digits of r / den have been taken, for
\* 0 <= r < den: r * 2^k modulo den.
RemainderAfter(r, den, k) == (r * Pow2Mod(k, den)) % den

\* x / d for integers x and d > 0 by long division in base 2: the double
\* nearest to the quotient, and whether the quotient had to be rounded.
DivideInts(x, d) ==
    IF x = 0 THEN [value |-> DZero, inexact |-> FALSE]
    ELSE LET m == IF x < 0 THEN -x ELSE x
             up == ShiftsUp(m, d)
             down == IF m >= d THEN ShiftsUp(d, m + 1) - 1 ELSE 0
             num == m * 2^up
             den == d * 2^down
             \* num / den is in [1, 2): the first digit is 1
             bits == [i \in 1..SignificandBits |->
                        IF i = 1 THEN 1
                        ELSE IF 2 * RemainderAfter(num - den, den, i - 2) >= den
                             THEN 1 ELSE 0]
             rem == RemainderAfter(num - den, den, SignificandBits - 1)
             exp == down - up
             away == \/ 2 * rem > den
                     \/ 2 * rem = den /\ bits[SignificandBits] = 1
         IN  [value |-> IF away THEN RoundUp(x < 0, exp, bits)
                        ELSE [zero |-> FALSE, neg |-> x < 0, exp |-> exp, bits |-> bits],
              inexact |-> rem # 0]

RECURSIVE ValueOf(_)
\* The integer a short sequence of bits writes.
ValueOf(bits) ==
    IF bits = <<>> THEN 0
    ELSE 2 * ValueOf(SubSeq(bits, 1, Len(bits) - 1)) + bits[Len(bits)]

\* The binary digits of bits * m, most significant first, for a sequence of
\* SignificandBits bits: the bits are multiplied ChunkBits at a time from
\* the last chunk on, each chunk giving ChunkBits digits of the product and a
\* carry into the next.
TimesDigits(bits, m) ==
    LET ChunkBits == 13
        chunks == (Len(bits) - 1) \div ChunkBits
        first == Len(bits) - chunks * ChunkBits
        \* chunk c, counted from the end; chunk `chunks` is what is left in front
        chunk(c) ==
            IF c = chunks THEN ValueOf(SubSeq(bits, 1, first))
            ELSE ValueOf(SubSeq(bits, Len(bits) - (c + 1) * ChunkBits + 1,
                                Len(bits) - c * ChunkBits))
        product[c \in 0..chunks] ==
            chunk(c) * m + (IF c = 0 THEN 0 ELSE product[c - 1] \div (2^ChunkBits))
        low == [k \in 1..(chunks * ChunkBits) |->
                   LET c == chunks - 1 - ((k - 1) \div ChunkBits)
                       pos == ChunkBits - 1 - ((k - 1) % ChunkBits)
                   IN  ((product[c] % (2^ChunkBits)) \div (2^pos)) % 2]
    IN  BitsOf(product[chunks]) \o low

\* a * m for a double a and an integer m > 0: the double nearest to the
\* product.
TimesInt(a, m) ==
    IF a.zero THEN a
    ELSE LET p == TimesDigits(a.bits, m)
             extra == Len(p) - SignificandBits
             kept == SubSeq(p, 1, SignificandBits)
             guard == extra > 0 /\ p[SignificandBits + 1] = 1
             sticky == \E i \in (SignificandBits + 2)..Len(p) : p[i] = 1
             away == guard /\ (sticky \/ kept[SignificandBits] = 1)
         IN  IF away THEN RoundUp(a.neg, a.exp + extra, kept)
             ELSE [zero |-> FALSE, neg |-> a.neg, exp |-> a.exp + extra, bits |-> kept]

\* a < b for two bit sequences of the same length.
BitsLess(a, b) ==
    \E i \in 1..Len(a) : a[i] < b[i] /\ \A j \in 1..(i - 1) : a[j] = b[j]

\* |a| < |b|
MagnitudeLess(a, b) ==
    IF b.zero THEN FALSE
    ELSE IF a.zero THEN TRUE
    ELSE a.exp < b.exp \/ (a.exp = b.exp /\ BitsLess(a.bits, b.bits))

\* a < b
DLess(a, b) ==
    CASE a.neg /\ ~b.neg -> TRUE
      [] ~a.neg /\ b.neg -> FALSE
      [] a.neg /\ b.neg -> MagnitudeLess(b, a)
      [] OTHER -> MagnitudeLess(a, b)

\* Math.min(a, b) and Math.max(a, b)
MathMin(a, b) == IF DLess(b, a) THEN b ELSE a
\* Mutant: no lower clamp.
MathMaxSecond(a, b) == b

MathMax(a, b) == IF DLess(a, b) THEN b ELSE a

-----------------------------------------------------------------------------
(* getProgressToNextLevel *)

\* const levels = [100, 150, 200, 250, 300]
levels == <<100, 150, 200, 250, 300>>

\* Mutant: level >= bestScore in place of level > bestScore.
FindNextLevelNotStrict(b) ==
    IF \E i \in 1..Len(levels) : levels[i] >= b
    THEN Num(levels[CHOOSE i \in 1..Len(levels) :
                      levels[i] >= b /\ \A j \in 1..(i - 1) : ~(levels[j] >= b)])
    ELSE Undefined

\* levels.find(level => level > bestScore): the first such element, or
\* undefined.
FindNextLevel(b) ==
    IF \E i \in 1..Len(levels) : levels[i] > b
    THEN Num(levels[CHOOSE i \in 1..Len(levels) :
                      levels[i] > b /\ \A j \in 1..(i - 1) : ~(levels[j] > b)])
    ELSE Undefined

\* levels.indexOf(nextLevel), counted from 0.
IndexOf(level) == (CHOOSE i \in 1..Len(levels) : levels[i] = level) - 1

\* levels[levels.indexOf(nextLevel) - 1] || 0 : the element at index -1 is
\* undefined.
PreviousLevel(nextLevel) ==
    LET k == IndexOf(nextLevel) - 1
    IN  IF k >= 0 /\ levels[k + 1] # 0 THEN levels[k + 1] ELSE 0

\* function getProgressToNextLevel(bestScore)
getProgressToNextLevel(b) ==
    LET nextLevel == FindNextLevel(b)
    IN  IF ~Truthy(nextLevel)
        THEN [isMaxLevel |-> TRUE,
              message |-> "You've reached the highest level! U+1F451"]
        ELSE LET previousLevel == PreviousLevel(nextLevel.v)
                 quotient == DivideInts(b - previousLevel, nextLevel.v - previousLevel).value
                 progress == TimesInt(quotient, 100)
             IN  [isMaxLevel |-> FALSE,
                  currentLevel |-> previousLevel,
                  nextLevel |-> nextLevel.v,
                  progress |-> MathMax(FromInt(0), MathMin(FromInt(100), progress)),
                  pointsNeeded |-> nextLevel.v - b]

-----------------------------------------------------------------------------
(* getMotivationalMessage *)

\* const messages = { rookie: [...], beginner: [...], ... }
messagePools ==
    [rookie |->
        <<"U+1F331 Every expert was once a beginner! Keep playing!",
          "U+1F3AE You're just getting started - the fun is ahead!",
          "U+1F680 Great start! Your memory skills are developing!">>,
     beginner |->
        <<"U+1F3AF You're making progress! Keep up the good work!",
          "U+1F4AA Your memory is getting stronger with each game!",
          "U+2B50 Nice improvement! You're on the right track!">>,
     intermediate |->
        <<"U+1F525 You're getting good at this! Keep the momentum!",
          "U+1F3AA Impressive skills! You're becoming a memory pro!",
          "U+1F31F Excellent progress! You're in the intermediate league!">>,
     advanced |->
        <<"U+1F3C6 Outstanding performance! You're almost a master!",
          "U+1F48E Your memory skills are truly impressive!",
          "U+1F680 You're reaching expert levels! Keep pushing!">>,
     expert |->
        <<"U+1F9E0 Memory Master level achieved! Incredible!",
          "U+1F451 You're among the elite players! Amazing work!",
          "U+1F31F Legendary performance! You're inspiring others!">>]

\* Mutant: a boundary at 250, as in the level table, in place of 200.
SkillLevelAt250(stats) ==
    IF JsGE(stats.best_score, 300) THEN "expert"
    ELSE IF JsGE(stats.best_score, 250) THEN "advanced"
    ELSE IF JsGE(stats.best_score, 150) THEN "intermediate"
    ELSE IF JsGE(stats.best_score, 100) THEN "beginner"
    ELSE "rookie"

\* let level = 'rookie'; if (userStats.best_score >= 300) level = 'expert';
\* else if ... >= 200 ... >= 150 ... >= 100
SkillLevel(stats) ==
    IF JsGE(stats.best_score, 300) THEN "expert"
    ELSE IF JsGE(stats.best_score, 200) THEN "advanced"
    ELSE IF JsGE(stats.best_score, 150) THEN "intermediate"
    ELSE IF JsGE(stats.best_score, 100) THEN "beginner"
    ELSE "rookie"

\* Math.floor(a) for a double 0 <= a < 2^31.
MathFloor(a) ==
    IF a.zero \/ a.exp < 0 THEN 0 ELSE ValueOf(SubSeq(a.bits, 1, a.exp + 1))

\* Mutant: Math.round in place of Math.floor (for a double 0 <= a < 2^31).
RandomIndexRounded(random, length) ==
    LET a == TimesInt(random, length)
    IN  IF a.zero \/ a.exp < 0 - 1 THEN 0
        ELSE IF a.exp = 0 - 1 THEN 1
        ELSE MathFloor(a) + a.bits[a.exp + 2]

\* Math.floor(Math.random() * levelMessages.length)
RandomIndex(random, length) == MathFloor(TimesInt(random, length))

\* function getMotivationalMessage(userStats), random being what
\* Math.random() returns.  An index past the end reads undefined.
getMotivationalMessage(stats, random) ==
    LET levelMessages == messagePools[SkillLevel(stats)]
        index == RandomIndex(random, Len(levelMessages))
    IN  IF index < Len(levelMessages)
        THEN [t |-> "string", v |-> levelMessages[index + 1]]
        ELSE [t |-> "undefined", v |-> ""]

-----------------------------------------------------------------------------
(* Arguments *)

\* The integers within Near of 0 and of each threshold in T.
NearTo(T) == {n \in 0..(60000 + Near) : n <= Near \/ \E t \in T : n >= t - Near /\ n <= t + Near}

\* How far the scores given to getProgressToNextLevel go above 300, the
\* last level, and below 0.
MaxBeyond == 2

BestScores ==
    (0 - MaxBeyond)..(300 + MaxBeyond)
        \cup {0 - 100 * k - j : k \in 1..MaxBeyond, j \in 0..MaxBeyond}

\* The players compared have a best_score within Near of a level or of 0.
PlayerStats ==
    [t : {"object"}, best_score : {Num(n) : n \in NearTo({100, 150, 200, 250, 300})}]

\* How many equally spaced values of Math.random() are tried, beside the
\* largest double below 1.
RandomGrain == 3

LargestBelowOne ==
    [zero |-> FALSE, neg |-> FALSE, exp |-> 0 - 1,
     bits |-> [i \in 1..SignificandBits |-> 1]]

\* Math.random() returns a double in [0, 1).
RandomDoubles ==
    {DivideInts(k, RandomGrain).value : k \in 0..(RandomGrain - 1)} \cup {LargestBelowOne}

Usernames == {"alice", "bob"}

StatsRecords ==
    [t : {"object"},
     total_games : {Undefined} \cup {Num(n) : n \in NearTo({10, 50, 100})},
     best_score : {Undefined} \cup {Num(n) : n \in NearTo({100, 200, 300})},
     best_time : {Undefined, Null} \cup {Num(n) : n \in NearTo({30000, 60000})},
     rank : {Undefined, Null} \cup {Num(n) : n \in NearTo({3, 10}) \ {0}},
     last_played : {Null, Num(1700000000)}]

\* The statistics of one user over time: total_games and best_score are
\* numbers, best_time and rank are at a threshold of the higher or of the
\* lower tier.
GamesCounts == NearTo({10, 50, 100})
BestScoresOverTime == NearTo({100, 200, 300})
TimesOverTime == {Num(30000), Num(60000)}
RanksOverTime == {Num(1), Num(3)}
UpdatedStats ==
    [t : {"object"},
     total_games : {Num(n) : n \in GamesCounts},
     best_score : {Num(n) : n \in BestScoresOverTime},
     best_time : TimesOverTime,
     rank : RanksOverTime,
     last_played : {Num(1700000000)}]

\* n itself, or the next value above n that S has.
SameOrNext(S, n) ==
    {n} \cup {m \in S : m > n /\ \A k \in S : k > n => m <= k}

\* How far the scores given to getGamePerformance go (beyond 350, the
\* highest threshold).
MaxScore == 351

Scores == 0..MaxScore

Difficulties ==
    {"easy", "medium", "hard", "expert", "unknown-difficulty", "undefined",
     "constructor", "toString", "__proto__"}


-----------------------------------------------------------------------------
(* The database module: class Database, UserQueries, GameQueries and the
   exported HumorGameDatabase singleton *)

\* The operations callers use on the exported object.
BaseOperations ==
    <<"query", "transaction", "testConnection", "getStats", "close", "getPoolStatus">>
UserOperations == <<"createOrGetUser", "getUserStats", "updateLastPlayed">>
GameOperations == <<"createGame", "completeGame", "recordMatch", "getLeaderboard">>

Range(seq) == {seq[i] : i \in DOMAIN seq}

Operations == Range(BaseOperations) \cup Range(UserOperations) \cup Range(GameOperations)

\* The prototype objects once the four class declarations are evaluated: own
\* holds Object.getOwnPropertyNames in order, every one of them a function.
ClassPrototypes ==
    [o \in {"Object.prototype", "Database.prototype", "UserQueries.prototype",
            "GameQueries.prototype", "HumorGameDatabase.prototype"} |->
        CASE o = "Object.prototype" ->
                [proto |-> "null", own |-> <<"constructor", "hasOwnProperty", "toString", "valueOf">>]
          [] o = "Database.prototype" ->
                [proto |-> "Object.prototype", own |-> <<"constructor">> \o BaseOperations]
          [] o = "UserQueries.prototype" ->
                [proto |-> "Database.prototype", own |-> <<"constructor">> \o UserOperations]
          [] o = "GameQueries.prototype" ->
                [proto |-> "Database.prototype", own |-> <<"constructor">> \o GameOperations]
          [] o = "HumorGameDatabase.prototype" ->
                [proto |-> "UserQueries.prototype", own |-> <<"constructor">>]]

\* obj with one more object, or with object id replaced.
WithObject(heap, id, object) ==
    [o \in DOMAIN heap \cup {id} |-> IF o = id THEN object ELSE heap[o]]

\* typeof obj[name]: the property is looked up on the object and then along
\* its prototype chain.
RECURSIVE TypeOfProperty(_, _, _)
TypeOfProperty(heap, id, name) ==
    IF id = "null" THEN "undefined"
    ELSE IF name \in Range(heap[id].own) THEN "function"
    ELSE TypeOfProperty(heap, heap[id].proto, name)

\* Object.setPrototypeOf(this, Object.create(GameQueries.prototype))
ReplacePrototype(heap) ==
    LET created == WithObject(heap, "created", [proto |-> "GameQueries.prototype", own |-> <<>>])
    IN  WithObject(created, "database", [created["database"] EXCEPT !.proto = "created"])

\* The module is not being loaded in this behaviour.
ModuleIdle ==
    /\ modulePc = "idle"
    /\ objects = ClassPrototypes
    /\ copied = 0
    /\ resolved = {}

\* The state when line 356 is reached: the classes are declared.
InitModule ==
    /\ modulePc = "new"
    /\ objects = ClassPrototypes
    /\ copied = 0
    /\ resolved = {}

\* new HumorGameDatabase(): super() returns this, an instance of the class.
NewHumorGameDatabase ==
    /\ modulePc = "new"
    /\ objects' = WithObject(objects, "database",
                             [proto |-> "HumorGameDatabase.prototype", own |-> <<>>])
    /\ modulePc' = "setPrototypeOf"
    /\ UNCHANGED <<copied, resolved>>

SetPrototypeOf ==
    /\ modulePc = "setPrototypeOf"
    /\ objects' = ReplacePrototype(objects)
    /\ modulePc' = "forEach"
    /\ UNCHANGED <<copied, resolved>>

\* One visit of Object.getOwnPropertyNames(GameQueries.prototype).forEach.
CopyGameQuery ==
    /\ modulePc = "forEach"
    /\ copied < Len(objects["GameQueries.prototype"].own)
    /\ LET name == objects["GameQueries.prototype"].own[copied + 1]
       IN  objects' =
             IF name # "constructor"
             THEN [objects EXCEPT !["database"].own = Append(@, name)]
             ELSE objects
    /\ copied' = copied + 1
    /\ UNCHANGED <<modulePc, resolved>>

\* const database = new HumorGameDatabase(); module.exports = database
ExportDatabase ==
    /\ modulePc = "forEach"
    /\ copied = Len(objects["GameQueries.prototype"].own)
    /\ modulePc' = "exported"
    /\ UNCHANGED <<objects, copied, resolved>>

\* A caller reads database[name] to call it.
ResolveOperation ==
    /\ modulePc = "exported"
    /\ \E name \in Operations :
         resolved' = resolved \cup
             {[name |-> name, type |-> TypeOfProperty(objects, "database", name)]}
    /\ UNCHANGED <<modulePc, objects, copied>>

-----------------------------------------------------------------------------
(* UserQueries.createOrGetUser *)

\* How many calls of createOrGetUser are in flight together.
MaxCallers == 2

Callers == 1..MaxCallers

\* The rows of the table with this username.
RowsOf(rows, username) ==
    SelectSeq(rows, LAMBDA row : row.username = username)

\* What a call settled with: the row it resolved with or the error it
\* rejected with.
NoRow == [id |-> 0, username |-> ""]
Pending == [completion |-> "pending", row |-> NoRow, error |-> ""]
Resolved(row) == [completion |-> "resolved", row |-> row, error |-> ""]
Rejected(error) == [completion |-> "rejected", row |-> NoRow, error |-> error]

NotCalled == [pc |-> "idle", username |-> "", outcome |-> Pending]

UsersIdle ==
    /\ uniqueUsernames = FALSE
    /\ users = <<>>
    /\ callers = [c \in Callers |-> NotCalled]
    /\ insertLog = <<>>

\* The schema is not part of the sources: the table has a unique constraint
\* on username or it has none.  alice may have registered before.
InitUsers ==
    /\ uniqueUsernames \in BOOLEAN
    /\ users \in {<<>>, <<[id |-> 1, username |-> "alice"]>>}
    /\ callers = [c \in Callers |-> NotCalled]
    /\ insertLog = <<>>

\* createOrGetUser(username) is called: the SELECT is sent.
CreateOrGetUser(c) ==
    /\ callers[c].pc = "idle"
    /\ \E username \in Usernames :
         callers' = [callers EXCEPT ![c] = [@ EXCEPT !.pc = "select", !.username = username]]
    /\ UNCHANGED <<uniqueUsernames, users, insertLog>>

\* if (existingUser.rows.length > 0) return existingUser.rows[0]; otherwise
\* the INSERT is sent.
AfterSelect(call, rows) ==
    IF Len(rows) > 0
    THEN [call EXCEPT !.pc = "done",
                      !.outcome = Resolved(rows[1])]
    ELSE [call EXCEPT !.pc = "insert"]

\* The database answers the SELECT of caller c, and the call goes on to its
\* next await.
SelectUser(c) ==
    /\ callers[c].pc = "select"
    /\ callers' = [callers EXCEPT
                     ![c] = AfterSelect(@, RowsOf(users, callers[c].username))]
    /\ UNCHANGED <<uniqueUsernames, users, insertLog>>

\* The database executes the INSERT ... RETURNING * of caller c: with a unique
\* constraint a second row of the username is an error, which the catch
\* rethrows.
InsertUser(c) ==
    /\ callers[c].pc = "insert"
    /\ LET username == callers[c].username
           existed == RowsOf(users, username) # <<>>
           row == [id |-> Len(users) + 1, username |-> username]
       IN  /\ insertLog' = Append(insertLog, [username |-> username, existed |-> existed])
           /\ IF existed /\ uniqueUsernames
              THEN /\ users' = users
                   /\ callers' = [callers EXCEPT
                         ![c] = [@ EXCEPT !.pc = "done",
                                          !.outcome = Rejected("unique_violation")]]
              ELSE /\ users' = Append(users, row)
                   /\ callers' = [callers EXCEPT
                         ![c] = [@ EXCEPT !.pc = "done",
                                          !.outcome = Resolved(row)]]
    /\ UNCHANGED uniqueUsernames

\* The connection fails under the pending query of caller c: query rethrows
\* and so does createOrGetUser.
QueryFails(c) ==
    /\ callers[c].pc \in {"select", "insert"}
    /\ callers' = [callers EXCEPT
          ![c] = [@ EXCEPT !.pc = "done",
                           !.outcome = Rejected("connection_error")]]
    /\ UNCHANGED <<uniqueUsernames, users, insertLog>>

-----------------------------------------------------------------------------
(* The server process: initializeServices, startServer, gracefulShutdown *)

\* How many shutdown signals (SIGTERM, SIGINT) the process receives.
MaxSignals == 2

ServerIdle ==
    /\ startPc = "idle"
    /\ servicesReady = "unset"
    /\ shutdowns = <<>>
    /\ exitCode = <<>>
    /\ log = <<>>

\* require.main === module: startServer() is about to be called.
InitServer ==
    /\ startPc = "startServer"
    /\ servicesReady = "unset"
    /\ shutdowns = <<>>
    /\ exitCode = <<>>
    /\ log = <<>>

Running == exitCode = <<>>

\* process.exit(code): the process ends, nothing runs after it.
ProcessExit(code) ==
    /\ exitCode' = <<code>>
    /\ log' = Append(log, IF code = 0 THEN "process.exit(0)" ELSE "process.exit(1)")

\* Mutant: the catch of initializeServices returns true.
CatchReturnsTrue == "true"

\* initializeServices: catch (error) { ...; return false; }
CatchReturns == "false"

\* startServer() calls initializeServices(), which calls
\* database.testConnection() and awaits it.
StartServer ==
    /\ Running /\ startPc = "startServer"
    /\ startPc' = "testConnection"
    /\ log' = Append(log, "database.testConnection")
    /\ UNCHANGED <<servicesReady, shutdowns, exitCode>>

\* The database test succeeded: redisClient.connect() is called and awaited.
TestConnectionResolves ==
    /\ Running /\ startPc = "testConnection"
    /\ startPc' = "connect"
    /\ log' = log \o <<"database.testConnection resolved", "redisClient.connect">>
    /\ UNCHANGED <<servicesReady, shutdowns, exitCode>>

\* The database test failed: the catch returns false.
TestConnectionRejects ==
    /\ Running /\ startPc = "testConnection"
    /\ startPc' = "initialized"
    /\ servicesReady' = CatchReturns
    /\ log' = Append(log, "database.testConnection rejected")
    /\ UNCHANGED <<shutdowns, exitCode>>

\* Redis connected: initializeServices returns true.
RedisConnectResolves ==
    /\ Running /\ startPc = "connect"
    /\ startPc' = "initialized"
    /\ servicesReady' = "true"
    /\ log' = Append(log, "redisClient.connect resolved")
    /\ UNCHANGED <<shutdowns, exitCode>>

\* Redis did not connect: the catch returns false.
RedisConnectRejects ==
    /\ Running /\ startPc = "connect"
    /\ startPc' = "initialized"
    /\ servicesReady' = CatchReturns
    /\ log' = Append(log, "redisClient.connect rejected")
    /\ UNCHANGED <<shutdowns, exitCode>>

\* if (!servicesReady) { ...; process.exit(1); }
ServicesNotReady ==
    /\ Running /\ startPc = "initialized" /\ servicesReady # "true"
    /\ ProcessExit(1)
    /\ UNCHANGED <<startPc, servicesReady, shutdowns>>

\* const server = app.listen(...); process.on('SIGTERM', ...);
\* process.on('SIGINT', ...)
Listen ==
    /\ Running /\ startPc = "initialized" /\ servicesReady = "true"
    /\ startPc' = "serving"
    /\ log' = log \o <<"app.listen", "process.on">>
    /\ UNCHANGED <<servicesReady, shutdowns, exitCode>>

\* app.listen throws: catch (error) { ...; process.exit(1); }
ListenThrows ==
    /\ Running /\ startPc = "initialized" /\ servicesReady = "true"
    /\ exitCode' = <<1>>
    /\ log' = log \o <<"app.listen threw", "process.exit(1)">>
    /\ UNCHANGED <<startPc, servicesReady, shutdowns>>

\* Mutant: gracefulShutdown without the setTimeout.
ShutdownWithoutTimer == [pc |-> "server.close", timer |-> "none"]

\* gracefulShutdown(server): server.close(callback) is called and the
\* force-close timer is armed.
ShutdownStarted == [pc |-> "server.close", timer |-> "armed"]

\* A signal arrives and its handler runs gracefulShutdown(server).
Signal ==
    /\ Running /\ startPc = "serving"
    /\ Len(shutdowns) < MaxSignals
    /\ shutdowns' = Append(shutdowns, ShutdownStarted)
    /\ log' = log \o <<"signal", "server.close">>
    /\ UNCHANGED <<startPc, servicesReady, exitCode>>

\* The server finished closing: the callback of shutdown i runs, calls
\* database.close() and awaits it.
ServerClosed(i) ==
    /\ Running /\ shutdowns[i].pc = "server.close"
    /\ shutdowns' = [shutdowns EXCEPT ![i].pc = "database.close"]
    /\ log' = log \o <<"server closed", "database.close">>
    /\ UNCHANGED <<startPc, servicesReady, exitCode>>

\* database.close() resolved: redisClient.quit() is called and awaited.
DatabaseClosed(i) ==
    /\ Running /\ shutdowns[i].pc = "database.close"
    /\ shutdowns' = [shutdowns EXCEPT ![i].pc = "redisClient.quit"]
    /\ log' = log \o <<"database.close resolved", "redisClient.quit">>
    /\ UNCHANGED <<startPc, servicesReady, exitCode>>

\* Mutant: the process exits with 0 whether the shutdown failed or not.
ExitCodeAlwaysZero(failed) == 0

\* try { ...; process.exit(0); } catch (error) { ...; process.exit(1); }
ExitCodeOfShutdown(failed) == IF failed THEN 1 ELSE 0

\* database.close() rejected: the catch exits.
DatabaseCloseRejects(i) ==
    /\ Running /\ shutdowns[i].pc = "database.close"
    /\ shutdowns' = [shutdowns EXCEPT ![i].pc = "done"]
    /\ exitCode' = <<ExitCodeOfShutdown(TRUE)>>
    /\ log' = log \o <<"database.close rejected",
                       IF ExitCodeOfShutdown(TRUE) = 0 THEN "process.exit(0)"
                                                       ELSE "process.exit(1)">>
    /\ UNCHANGED <<startPc, servicesReady>>

\* redisClient.quit() resolved: process.exit(0).
RedisQuitResolves(i) ==
    /\ Running /\ shutdowns[i].pc = "redisClient.quit"
    /\ shutdowns' = [shutdowns EXCEPT ![i].pc = "done"]
    /\ exitCode' = <<ExitCodeOfShutdown(FALSE)>>
    /\ log' = log \o <<"redisClient.quit resolved",
                       IF ExitCodeOfShutdown(FALSE) = 0 THEN "process.exit(0)"
                                                        ELSE "process.exit(1)">>
    /\ UNCHANGED <<startPc, servicesReady>>

\* redisClient.quit() rejected: the catch exits.
RedisQuitRejects(i) ==
    /\ Running /\ shutdowns[i].pc = "redisClient.quit"
    /\ shutdowns' = [shutdowns EXCEPT ![i].pc = "done"]
    /\ exitCode' = <<ExitCodeOfShutdown(TRUE)>>
    /\ log' = log \o <<"redisClient.quit rejected",
                       IF ExitCodeOfShutdown(TRUE) = 0 THEN "process.exit(0)"
                                                       ELSE "process.exit(1)">>
    /\ UNCHANGED <<startPc, servicesReady>>

\* The 10 s timer of shutdown i fires: process.exit(1).
ForceClose(i) ==
    /\ Running /\ shutdowns[i].timer = "armed"
    /\ shutdowns' = [shutdowns EXCEPT ![i].timer = "fired"]
    /\ exitCode' = <<1>>
    /\ log' = log \o <<"timer fired", "process.exit(1)">>
    /\ UNCHANGED <<startPc, servicesReady>>

-----------------------------------------------------------------------------
(* Database.transaction *)

\* How many transactions run together, and how many clients the pool lends
\* (dbConfig.max, scaled down so that a transaction can wait for a client).
MaxTransactions == 3
PoolMax == 2

Transactions == 1..MaxTransactions
Clients == 1..PoolMax

\* What a callback may resolve with.
CallbackResults == {"result A", "result B"}

\* A transaction that was not called: client is the client it holds (0 for
\* none), ops are the operations done on its client, error is what its catch
\* caught.
NotStarted ==
    [pc |-> "idle", client |-> 0, ops |-> <<>>, error |-> "", result |-> "",
     outcome |-> [completion |-> "pending", value |-> "", error |-> ""]]

TransactionsIdle ==
    /\ held = {}
    /\ transactions = [t \in Transactions |-> NotStarted]

\* One operation on the client and how it ended.
Op(name, ok) == [op |-> name, ok |-> ok]

\* Mutant: the catch rethrows without a ROLLBACK.
CatchWithoutRollback(tx, failed) ==
    [tx EXCEPT !.pc = "done",
               !.client = 0,
               !.error = failed,
               !.ops = @ \o <<Op(failed, FALSE), Op("release", TRUE)>>,
               !.outcome = [completion |-> "rejected", value |-> "", error |-> failed]]

\* catch (error) { await client.query('ROLLBACK'); ... }: the operation
\* named failed threw, the ROLLBACK is sent.
Catch(tx, failed) ==
    [tx EXCEPT !.pc = "ROLLBACK",
               !.error = failed,
               !.ops = Append(@, Op(failed, FALSE))]

\* Mutant: the transaction settles without the finally.
SettleWithoutRelease(tx, last, outcome) ==
    [tx EXCEPT !.pc = "done", !.ops = Append(@, last), !.outcome = outcome]

\* return result / throw ..., then finally { client.release(); }: last is the
\* operation whose completion settles the transaction.
Settle(tx, last, outcome) ==
    [tx EXCEPT !.pc = "done",
               !.client = 0,
               !.ops = @ \o <<last, Op("release", TRUE)>>,
               !.outcome = outcome]

\* The pool after the step of a transaction from before to after: release
\* gives its client back.
HeldAfter(before, after) ==
    IF after.ops # <<>> /\ after.ops[Len(after.ops)].op = "release"
    THEN held \ {before.client}
    ELSE held

\* transaction(callback) is called: pool.connect() is awaited.
Transaction(t) ==
    /\ transactions[t].pc = "idle"
    /\ transactions' = [transactions EXCEPT ![t].pc = "connect"]
    /\ UNCHANGED held

\* pool.connect() resolves with a free client; BEGIN is sent.
ConnectResolves(t) ==
    /\ transactions[t].pc = "connect"
    /\ \E c \in Clients \ held :
         /\ held' = held \cup {c}
         /\ transactions' = [transactions EXCEPT ![t].pc = "BEGIN", ![t].client = c]

\* pool.connect() rejects (no client within connectionTimeoutMillis, or no
\* connection): the transaction rejects before its try.
ConnectRejects(t) ==
    /\ transactions[t].pc = "connect"
    /\ transactions' = [transactions EXCEPT
          ![t].pc = "done",
          ![t].outcome = [completion |-> "rejected", value |-> "", error |-> "connect"]]
    /\ UNCHANGED held

\* BEGIN succeeded: callback(client) is called.
BeginResolves(t) ==
    /\ transactions[t].pc = "BEGIN"
    /\ transactions' = [transactions EXCEPT
          ![t].pc = "callback", ![t].ops = Append(@, Op("BEGIN", TRUE))]
    /\ UNCHANGED held

BeginRejects(t) ==
    /\ transactions[t].pc = "BEGIN"
    /\ transactions' = [transactions EXCEPT ![t] = Catch(@, "BEGIN")]
    /\ held' = HeldAfter(transactions[t], transactions'[t])

\* The callback resolved: COMMIT is sent.
CallbackResolves(t) ==
    /\ transactions[t].pc = "callback"
    /\ \E result \in CallbackResults :
         transactions' = [transactions EXCEPT
            ![t].pc = "COMMIT", ![t].result = result,
            ![t].ops = Append(@, Op("callback", TRUE))]
    /\ UNCHANGED held

CallbackRejects(t) ==
    /\ transactions[t].pc = "callback"
    /\ transactions' = [transactions EXCEPT ![t] = Catch(@, "callback")]
    /\ held' = HeldAfter(transactions[t], transactions'[t])

\* COMMIT succeeded: return result, and the finally releases the client.
CommitResolves(t) ==
    /\ transactions[t].pc = "COMMIT"
    /\ transactions' = [transactions EXCEPT
          ![t] = Settle(@, Op("COMMIT", TRUE),
                        [completion |-> "resolved", value |-> @.result, error |-> ""])]
    /\ held' = HeldAfter(transactions[t], transactions'[t])

CommitRejects(t) ==
    /\ transactions[t].pc = "COMMIT"
    /\ transactions' = [transactions EXCEPT ![t] = Catch(@, "COMMIT")]
    /\ held' = HeldAfter(transactions[t], transactions'[t])

\* ROLLBACK succeeded: throw error, and the finally releases the client.
RollbackResolves(t) ==
    /\ transactions[t].pc = "ROLLBACK"
    /\ transactions' = [transactions EXCEPT
          ![t] = Settle(@, Op("ROLLBACK", TRUE),
                        [completion |-> "rejected", value |-> "", error |-> @.error])]
    /\ held' = HeldAfter(transactions[t], transactions'[t])

\* ROLLBACK failed: the await in the catch throws the error of the ROLLBACK,
\* and the finally releases the client.
RollbackRejects(t) ==
    /\ transactions[t].pc = "ROLLBACK"
    /\ transactions' = [transactions EXCEPT
          ![t] = Settle(@, Op("ROLLBACK", FALSE),
                        [completion |-> "rejected", value |-> "", error |-> "ROLLBACK"])]
    /\ held' = HeldAfter(transactions[t], transactions'[t])

-----------------------------------------------------------------------------
(* Behaviours.  The arguments of the helpers a behaviour does not call stay
   at a fixed value. *)

\* No players are compared.
NoPlayers ==
    players = <<>> /\ messages = <<>> /\ progresses = <<>> /\ evaluations = <<>>

\* No helper of the scores route is called in this behaviour.
HelpersIdle ==
    /\ callee = "none"
    /\ userStats = [t |-> "null"] /\ calls = <<>>
    /\ score = 0 /\ difficulty = "easy" /\ performance = <<>>
    /\ bestScore = 0 /\ progressResult = <<>>
    /\ NoPlayers

InitAchievements ==
    /\ callee = "getUserAchievements"
    /\ userStats \in StatsRecords \cup {[t |-> "null"]}
    /\ calls = <<>>
    /\ score = 0 /\ difficulty = "easy" /\ performance = <<>>
    /\ bestScore = 0 /\ progressResult = <<>>
    /\ NoPlayers

CallGetUserAchievements ==
    /\ callee = "getUserAchievements"
    /\ Len(calls) < MaxCalls
    /\ \E username \in Usernames :
         calls' = Append(calls, getUserAchievements(username, userStats))
    /\ UNCHANGED <<callee, userStats, score, difficulty, performance, bestScore, progressResult>>
    /\ UNCHANGED <<players, messages, progresses, evaluations>>
    /\ UNCHANGED systemVars

InitPerformance ==
    /\ callee = "getGamePerformance"
    /\ score \in Scores
    /\ difficulty \in Difficulties
    /\ performance = <<>>
    /\ userStats = [t |-> "null"] /\ calls = <<>>
    /\ bestScore = 0 /\ progressResult = <<>>
    /\ NoPlayers

CallGetGamePerformance ==
    /\ callee = "getGamePerformance"
    /\ performance = <<>>
    /\ performance' = <<getGamePerformance(score, difficulty)>>
    /\ UNCHANGED <<callee, userStats, calls, score, difficulty, bestScore, progressResult>>
    /\ UNCHANGED <<players, messages, progresses, evaluations>>
    /\ UNCHANGED systemVars

InitProgress ==
    /\ callee = "getProgressToNextLevel"
    /\ bestScore \in BestScores
    /\ progressResult = <<>>
    /\ userStats = [t |-> "null"] /\ calls = <<>>
    /\ score = 0 /\ difficulty = "easy" /\ performance = <<>>
    /\ NoPlayers

CallGetProgressToNextLevel ==
    /\ callee = "getProgressToNextLevel"
    /\ progressResult = <<>>
    /\ progressResult' = <<getProgressToNextLevel(bestScore)>>
    /\ UNCHANGED <<callee, userStats, calls, score, difficulty, performance, bestScore>>
    /\ UNCHANGED <<players, messages, progresses, evaluations>>
    /\ UNCHANGED systemVars

InitPlayers ==
    /\ callee = "getMotivationalMessage"
    /\ players \in [1..2 -> PlayerStats]
    /\ messages = <<>> /\ progresses = <<>> /\ evaluations = <<>>
    /\ userStats = [t |-> "null"] /\ calls = <<>>
    /\ score = 0 /\ difficulty = "easy" /\ performance = <<>>
    /\ bestScore = 0 /\ progressResult = <<>>

\* getMotivationalMessage(userStats) for the next player, with any outcome of
\* Math.random().
CallGetMotivationalMessage ==
    /\ callee = "getMotivationalMessage"
    /\ Len(messages) < Len(players)
    /\ \E random \in RandomDoubles :
         messages' = Append(messages,
                            getMotivationalMessage(players[Len(messages) + 1], random))
    /\ UNCHANGED <<callee, userStats, calls, score, difficulty, performance,
                   bestScore, progressResult, players, progresses, evaluations>>
    /\ UNCHANGED systemVars

\* getProgressToNextLevel(userStats.best_score) for the next player.
CallGetProgressOfPlayer ==
    /\ callee = "getMotivationalMessage"
    /\ Len(progresses) < Len(players)
    /\ progresses' = Append(progresses,
                            getProgressToNextLevel(players[Len(progresses) + 1].best_score.v))
    /\ UNCHANGED <<callee, userStats, calls, score, difficulty, performance,
                   bestScore, progressResult, players, messages, evaluations>>
    /\ UNCHANGED systemVars

Init ==
    /\ InitAchievements \/ InitPerformance \/ InitProgress \/ InitPlayers
    /\ ModuleIdle
    /\ UsersIdle
    /\ ServerIdle
    /\ TransactionsIdle

Next ==
    \/ CallGetUserAchievements
    \/ CallGetGamePerformance
    \/ CallGetProgressToNextLevel
    \/ CallGetMotivationalMessage
    \/ CallGetProgressOfPlayer

Spec == Init /\ [][Next]_vars

InitDatabaseModule ==
    HelpersIdle /\ InitModule /\ UsersIdle /\ ServerIdle /\ TransactionsIdle

NextDatabaseModule ==
    \/ NewHumorGameDatabase /\ UNCHANGED notModuleVars
    \/ SetPrototypeOf /\ UNCHANGED notModuleVars
    \/ CopyGameQuery /\ UNCHANGED notModuleVars
    \/ ExportDatabase /\ UNCHANGED notModuleVars
    \/ ResolveOperation /\ UNCHANGED notModuleVars

SpecDatabaseModule == InitDatabaseModule /\ [][NextDatabaseModule]_vars

\* The statistics of a user as getUserStats first delivers them.
InitStatistics ==
    /\ callee = "statistics updates"
    /\ userStats \in UpdatedStats
    /\ calls = <<>>
    /\ score = 0 /\ difficulty = "easy" /\ performance = <<>>
    /\ bestScore = 0 /\ progressResult = <<>>
    /\ NoPlayers

\* The user played: getUserStats delivers other statistics, in which
\* total_games and best_score have not decreased (each stays or rises to the
\* next value; larger rises are several updates) and best_time and rank are
\* any.
UpdateStatistics ==
    /\ callee = "statistics updates"
    /\ \E games \in SameOrNext(GamesCounts, userStats.total_games.v),
          best \in SameOrNext(BestScoresOverTime, userStats.best_score.v),
          time \in TimesOverTime, rank \in RanksOverTime :
         /\ userStats' = [userStats EXCEPT !.total_games = Num(games),
                                           !.best_score = Num(best),
                                           !.best_time = time,
                                           !.rank = rank]
         /\ userStats' # userStats
    /\ UNCHANGED <<callee, calls, score, difficulty, performance, bestScore,
                   progressResult, players, messages, progresses, evaluations>>

\* getUserAchievements(username, userStats) on the statistics as they are.
EvaluateAchievements ==
    /\ callee = "statistics updates"
    /\ \E username \in Usernames :
         evaluations' =
            (IF evaluations = <<>> THEN <<>> ELSE <<evaluations[Len(evaluations)]>>)
                \o <<getUserAchievements(username, userStats)>>
    /\ UNCHANGED <<callee, userStats, calls, score, difficulty, performance,
                   bestScore, progressResult, players, messages, progresses>>

InitStatisticsUpdates ==
    InitStatistics /\ ModuleIdle /\ UsersIdle /\ ServerIdle /\ TransactionsIdle

NextStatisticsUpdates ==
    \/ UpdateStatistics /\ UNCHANGED systemVars
    \/ EvaluateAchievements /\ UNCHANGED systemVars

SpecStatisticsUpdates == InitStatisticsUpdates /\ [][NextStatisticsUpdates]_vars

InitUserQueries ==
    HelpersIdle /\ ModuleIdle /\ InitUsers /\ ServerIdle /\ TransactionsIdle

NextUserQueries ==
    \/ \E c \in Callers : CreateOrGetUser(c) /\ UNCHANGED notUserVars
    \/ \E c \in Callers : SelectUser(c) /\ UNCHANGED notUserVars
    \/ \E c \in Callers : InsertUser(c) /\ UNCHANGED notUserVars
    \/ \E c \in Callers : QueryFails(c) /\ UNCHANGED notUserVars

SpecUserQueries == InitUserQueries /\ [][NextUserQueries]_vars

InitServerProcess ==
    HelpersIdle /\ ModuleIdle /\ UsersIdle /\ InitServer /\ TransactionsIdle

NextServerProcess ==
    \/ StartServer /\ UNCHANGED notServerVars
    \/ TestConnectionResolves /\ UNCHANGED notServerVars
    \/ TestConnectionRejects /\ UNCHANGED notServerVars
    \/ RedisConnectResolves /\ UNCHANGED notServerVars
    \/ RedisConnectRejects /\ UNCHANGED notServerVars
    \/ ServicesNotReady /\ UNCHANGED notServerVars
    \/ Listen /\ UNCHANGED notServerVars
    \/ ListenThrows /\ UNCHANGED notServerVars
    \/ Signal /\ UNCHANGED notServerVars
    \/ \E i \in DOMAIN shutdowns : ServerClosed(i) /\ UNCHANGED notServerVars
    \/ \E i \in DOMAIN shutdowns : DatabaseClosed(i) /\ UNCHANGED notServerVars
    \/ \E i \in DOMAIN shutdowns : DatabaseCloseRejects(i) /\ UNCHANGED notServerVars
    \/ \E i \in DOMAIN shutdowns : RedisQuitResolves(i) /\ UNCHANGED notServerVars
    \/ \E i \in DOMAIN shutdowns : RedisQuitRejects(i) /\ UNCHANGED notServerVars
    \/ \E i \in DOMAIN shutdowns : ForceClose(i) /\ UNCHANGED notServerVars

SpecServerProcess == InitServerProcess /\ [][NextServerProcess]_vars

\* The event loop runs a timer that is due: the force-close timer of a
\* shutdown fires unless the process has exited.
TimersFire == WF_vars(\E i \in DOMAIN shutdowns : ForceClose(i) /\ UNCHANGED notServerVars)

SpecServerProcessFair == SpecServerProcess /\ TimersFire

InitTransactions ==
    HelpersIdle /\ ModuleIdle /\ UsersIdle /\ ServerIdle /\ TransactionsIdle

NextTransactions ==
    \/ \E t \in Transactions : Transaction(t) /\ UNCHANGED notTransactionVars
    \/ \E t \in Transactions : ConnectResolves(t) /\ UNCHANGED notTransactionVars
    \/ \E t \in Transactions : ConnectRejects(t) /\ UNCHANGED notTransactionVars
    \/ \E t \in Transactions : BeginResolves(t) /\ UNCHANGED notTransactionVars
    \/ \E t \in Transactions : BeginRejects(t) /\ UNCHANGED notTransactionVars
    \/ \E t \in Transactions : CallbackResolves(t) /\ UNCHANGED notTransactionVars
    \/ \E t \in Transactions : CallbackRejects(t) /\ UNCHANGED notTransactionVars
    \/ \E t \in Transactions : CommitResolves(t) /\ UNCHANGED notTransactionVars
    \/ \E t \in Transactions : CommitRejects(t) /\ UNCHANGED notTransactionVars
    \/ \E t \in Transactions : RollbackResolves(t) /\ UNCHANGED notTransactionVars
    \/ \E t \in Transactions : RollbackRejects(t) /\ UNCHANGED notTransactionVars

SpecTransactions == InitTransactions /\ [][NextTransactions]_vars

-----------------------------------------------------------------------------
(* Properties of getUserAchievements *)

\* The ids of the achievements a call returned.
IdsOf(outcome) == {outcome.value[i].id : i \in 1..Len(outcome.value)}

RankIds == {"top_ten", "podium", "champion"}

EvaluationOrder ==
    <<"ten_games", "fifty_games", "hundred_games", "score_100", "score_200",
      "score_300", "speed_demon", "lightning_fast", "top_ten", "podium", "champion">>

\* The position of an id in EvaluationOrder (0 when it is not in it).
OrderIndex(id) ==
    IF \E k \in 1..Len(EvaluationOrder) : EvaluationOrder[k] = id
    THEN CHOOSE k \in 1..Len(EvaluationOrder) : EvaluationOrder[k] = id
    ELSE 0

\* The calls made with a statistics record (an object, not null).
OnRecord(i) == i \in 1..Len(calls) /\ userStats.t = "object"

\* C1: for a record with integer total_games >= 0 and best_score >= 0, each
\* of the six count/score ids is returned exactly when its threshold holds;
\* no tier suppresses a lower one.
C1_CountAndScoreThresholds ==
    \A i \in 1..Len(calls) :
        (/\ OnRecord(i)
         /\ userStats.total_games.t = "number" /\ userStats.total_games.v >= 0
         /\ userStats.best_score.t = "number" /\ userStats.best_score.v >= 0)
        => LET ids == IdsOf(calls[i])
               g == userStats.total_games.v
               b == userStats.best_score.v
           IN  /\ ("ten_games" \in ids) <=> (g >= 10)
               /\ ("fifty_games" \in ids) <=> (g >= 50)
               /\ ("hundred_games" \in ids) <=> (g >= 100)
               /\ ("score_100" \in ids) <=> (b >= 100)
               /\ ("score_200" \in ids) <=> (b >= 200)
               /\ ("score_300" \in ids) <=> (b >= 300)

\* C1 witness: a call with total_games >= 100 and best_score >= 300 returned
\* all three game ids and all three score ids.
C1_Witness ==
    /\ OnRecord(1)
    /\ userStats.total_games.t = "number" /\ userStats.total_games.v >= 100
    /\ userStats.best_score.t = "number" /\ userStats.best_score.v >= 300
    /\ {"ten_games", "fifty_games", "hundred_games",
        "score_100", "score_200", "score_300"} \subseteq IdsOf(calls[1])

\* C2 (as claimed): when rank is absent (the field is missing, or null), no
\* rank-based id is returned.
C2_AbsentRankNoRankIds ==
    \A i \in 1..Len(calls) :
        (OnRecord(i) /\ userStats.rank.t \in {"undefined", "null"})
        => IdsOf(calls[i]) \cap RankIds = {}

\* C3 (as claimed): speed_demon is returned exactly when best_time is present
\* and <= 60000, lightning_fast exactly when it is present and <= 30000, a
\* present best_time being any integer >= 0, 0 included.
C3_SpeedThresholds ==
    \A i \in 1..Len(calls) :
        OnRecord(i)
        => LET ids == IdsOf(calls[i])
               present == userStats.best_time.t = "number" /\ userStats.best_time.v >= 0
           IN  /\ ("speed_demon" \in ids) <=> (present /\ userStats.best_time.v <= 60000)
               /\ ("lightning_fast" \in ids) <=> (present /\ userStats.best_time.v <= 30000)

\* C4: when rank is a present positive integer, top_ten is returned exactly
\* when rank <= 10, podium exactly when rank <= 3, champion exactly when
\* rank = 1.
C4_RankThresholds ==
    \A i \in 1..Len(calls) :
        (OnRecord(i) /\ userStats.rank.t = "number" /\ userStats.rank.v >= 1)
        => LET ids == IdsOf(calls[i])
               r == userStats.rank.v
           IN  /\ ("top_ten" \in ids) <=> (r <= 10)
               /\ ("podium" \in ids) <=> (r <= 3)
               /\ ("champion" \in ids) <=> (r = 1)

\* C4 witness: a call with rank = 1 returned all three rank-based ids.
C4_Witness ==
    /\ OnRecord(1)
    /\ userStats.rank.t = "number" /\ userStats.rank.v = 1
    /\ RankIds \subseteq IdsOf(calls[1])

\* C5: the returned sequence lists ids of the evaluation order, in that
\* order, each at most once (it is a subsequence of EvaluationOrder).
C5_EvaluationOrderNoDuplicates ==
    \A i \in 1..Len(calls) :
        LET a == calls[i].value
        IN  /\ \A k \in 1..Len(a) : OrderIndex(a[k].id) >= 1
            /\ \A k, m \in 1..Len(a) :
                 k < m => OrderIndex(a[k].id) < OrderIndex(a[m].id)

\* C5 witness: a call returned all eleven achievements.
C5_Witness ==
    /\ OnRecord(1)
    /\ Len(calls[1].value) = Len(EvaluationOrder)

C7_NeverFails ==
    \A i \in 1..Len(calls) :
        /\ calls[i].completion = "resolved"
        /\ \A k \in 1..Len(calls[i].value) :
             calls[i].value[k].id \in
                 {EvaluationOrder[n] : n \in 1..Len(EvaluationOrder)}

\* C7 witness: a call with a null record returned the empty list.
C7_Witness ==
    /\ Len(calls) >= 1
    /\ calls[1] = [completion |-> "resolved", value |-> <<>>]
    /\ userStats.t = "null"

-----------------------------------------------------------------------------
(* Properties of getGamePerformance *)

\* The threshold triples as the specification's table gives them.
TableTriple(d) ==
    CASE d = "easy" -> <<180, 140, 100>>
      [] d = "medium" -> <<220, 180, 140>>
      [] d = "hard" -> <<280, 220, 180>>
      [] d = "expert" -> <<350, 280, 220>>

\* C8: for a score >= 0 and a difficulty of the table, the rating is
\* Excellent iff score >= excellent, Good iff good <= score < excellent,
\* Average iff average <= score < good, Keep Trying iff score < average, and
\* each rating carries its one emoji and color.
C8_RatingByThresholds ==
    (performance # <<>> /\ difficulty \in {"easy", "medium", "hard", "expert"})
    => LET p == performance[1]
           tr == TableTriple(difficulty)
       IN  /\ (p.rating = "Excellent") <=> (score >= tr[1])
           /\ (p.rating = "Good") <=> (tr[2] <= score /\ score < tr[1])
           /\ (p.rating = "Average") <=> (tr[3] <= score /\ score < tr[2])
           /\ (p.rating = "Keep Trying") <=> (score < tr[3])
           /\ p.rating \in {"Excellent", "Good", "Average", "Keep Trying"}
           /\ p.rating = "Excellent" => (p.emoji = "U+1F31F" /\ p.color = "#FFD700")
           /\ p.rating = "Good" => (p.emoji = "U+1F44D" /\ p.color = "#90EE90")
           /\ p.rating = "Average" => (p.emoji = "U+1F60A" /\ p.color = "#87CEEB")
           /\ p.rating = "Keep Trying" => (p.emoji = "U+1F4AA" /\ p.color = "#FFA07A")

\* C8 witness: 180 on easy was rated Excellent.
C8_Witness ==
    /\ performance # <<>>
    /\ score = 180 /\ difficulty = "easy"
    /\ performance[1].rating = "Excellent"

\* C9 (as claimed): for a difficulty that is none of easy, medium, hard,
\* expert (any other string, a name of a built-in object property, a missing
\* value), the result is the one for the same score with difficulty easy.
C9_UnknownDifficultyIsEasy ==
    (performance # <<>> /\ difficulty \notin {"easy", "medium", "hard", "expert"})
    => performance[1] = getGamePerformance(score, "easy")

-----------------------------------------------------------------------------
(* Properties of getProgressToNextLevel *)

\* The level table as the specification gives it.
TableLevels == {100, 150, 200, 250, 300}

\* The double a is exactly the rational num / den (den > 0).
IsExactly(a, num, den) ==
    LET q == DivideInts(num, den) IN ~q.inexact /\ a = q.value

\* The doubles a and b, neither zero nor negative, are next to each other.
Adjacent(a, b) ==
    \/ a = RoundUp(FALSE, b.exp, b.bits)
    \/ b = RoundUp(FALSE, a.exp, a.bits)

\* What C10 says of a result r that is not the max-level marker, but for
\* progress.
LevelsAndPoints(r) ==
    /\ r.nextLevel \in TableLevels /\ r.nextLevel > bestScore
    /\ \A l \in TableLevels : l > bestScore => r.nextLevel <= l
    /\ r.currentLevel \in TableLevels \cup {0} /\ r.currentLevel < r.nextLevel
    /\ \A l \in TableLevels \cup {0} : l < r.nextLevel => l <= r.currentLevel
    /\ r.pointsNeeded = r.nextLevel - bestScore

\* C10 (as claimed): for bestScore >= 0 the result is the max-level marker
\* iff bestScore >= 300; otherwise nextLevel is the smallest level above
\* bestScore, currentLevel the level before it (0 before 100), pointsNeeded
\* is nextLevel - bestScore and progress is
\* 100 * (bestScore - currentLevel) / (nextLevel - currentLevel).
C10_ProgressIsExactQuotient ==
    (progressResult # <<>> /\ bestScore >= 0)
    => LET r == progressResult[1]
       IN  /\ r.isMaxLevel <=> (bestScore >= 300)
           /\ ~r.isMaxLevel =>
                /\ LevelsAndPoints(r)
                /\ IsExactly(r.progress, 100 * (bestScore - r.currentLevel),
                             r.nextLevel - r.currentLevel)

\* C10 (amended): as claimed, but progress is the double the code computes,
\* which is that quotient or a double next to it; it is the quotient itself
\* for 125 and for 0.
C10_ProgressIsRoundedQuotient ==
    (progressResult # <<>> /\ bestScore >= 0)
    => LET r == progressResult[1]
       IN  /\ r.isMaxLevel <=> (bestScore >= 300)
           /\ ~r.isMaxLevel =>
                LET q == DivideInts(100 * (bestScore - r.currentLevel),
                                    r.nextLevel - r.currentLevel)
                IN  /\ LevelsAndPoints(r)
                    /\ ~q.inexact
                    /\ r.progress = q.value \/ Adjacent(r.progress, q.value)
                    /\ bestScore \in {0, 125} => r.progress = q.value

\* C10 witness: 125 gave (100, 150, 50, 25).
C10_Witness ==
    /\ progressResult # <<>>
    /\ bestScore = 125
    /\ progressResult[1] = [isMaxLevel |-> FALSE, currentLevel |-> 100,
                            nextLevel |-> 150, progress |-> FromInt(50),
                            pointsNeeded |-> 25]

\* C11: for every integer bestScore, the negative ones included, a result
\* that is not the max-level marker has 0 <= progress <= 100,
\* pointsNeeded > 0 and currentLevel < nextLevel.
C11_ProgressClamped ==
    (progressResult # <<>> /\ ~progressResult[1].isMaxLevel)
    => LET r == progressResult[1]
       IN  /\ ~DLess(r.progress, FromInt(0))
           /\ ~DLess(FromInt(100), r.progress)
           /\ r.pointsNeeded > 0
           /\ r.currentLevel < r.nextLevel

\* C11 witness: a score below -100, whose quotient is below -100 %, gave
\* progress 0.
C11_Witness ==
    /\ progressResult # <<>>
    /\ bestScore < 0 - 100
    /\ ~progressResult[1].isMaxLevel
    /\ progressResult[1].progress = FromInt(0)
    /\ progressResult[1].pointsNeeded = 100 - bestScore

-----------------------------------------------------------------------------
(* Properties of getMotivationalMessage *)

\* The tier of a best score as the specification gives it.
TierOf(b) ==
    IF b < 100 THEN "rookie"
    ELSE IF b < 150 THEN "beginner"
    ELSE IF b < 200 THEN "intermediate"
    ELSE IF b < 300 THEN "advanced"
    ELSE "expert"

\* The pools whose strings include the message m.
PoolsOf(m) ==
    {tier \in DOMAIN messagePools : m.t = "string" /\ m.v \in Range(messagePools[tier])}

\* C12: for every integer best_score >= 0 and every outcome of the random
\* draw, the message is one of the 3 strings of the pool of the score's
\* tier, never a string of another pool and never undefined.
C12_MessageFromTierPool ==
    \A i \in 1..Len(messages) :
        players[i].best_score.v >= 0
        => /\ messages[i].t = "string"
           /\ Len(messagePools[TierOf(players[i].best_score.v)]) = 3
           /\ PoolsOf(messages[i]) = {TierOf(players[i].best_score.v)}

\* C12 witness: with the largest draw below 1, a player at 200 got the third
\* advanced message.
C12_Witness ==
    /\ Len(messages) >= 1
    /\ players[1].best_score.v = 200
    /\ messages[1] = [t |-> "string", v |-> messagePools["advanced"][3]]

\* Two results of getProgressToNextLevel place their scores between the same
\* two levels, or both at the max level.
SameLevels(r1, r2) ==
    IF r1.isMaxLevel \/ r2.isMaxLevel
    THEN r1.isMaxLevel /\ r2.isMaxLevel
    ELSE r1.currentLevel = r2.currentLevel /\ r1.nextLevel = r2.nextLevel

\* Both players have their message and their progress.
BothCompared ==
    Len(messages) = 2 /\ Len(progresses) = 2
    /\ players[1].best_score.v >= 0 /\ players[2].best_score.v >= 0

\* C13 (as claimed): two scores >= 0 draw from the same pool exactly when
\* getProgressToNextLevel places them between the same two levels, or both
\* at the max level.
C13_TiersAreLevels ==
    BothCompared
    => (PoolsOf(messages[1]) = PoolsOf(messages[2])
        <=> SameLevels(progresses[1], progresses[2]))

\* C13 (amended): two scores between the same two levels draw from the same
\* pool, and two scores drawing from the same pool are between the same two
\* levels unless both are in 200..299, where the level table has a boundary
\* at 250 that the pools do not have.
C13_TiersCoarsenLevels ==
    BothCompared
    => (PoolsOf(messages[1]) = PoolsOf(messages[2])
        <=> \/ SameLevels(progresses[1], progresses[2])
            \/ /\ players[1].best_score.v \in 200..299
               /\ players[2].best_score.v \in 200..299)

\* C13 witness: 200 and 250 drew from the same pool and are between
\* different levels.
C13_Witness ==
    /\ BothCompared
    /\ players[1].best_score.v = 200 /\ players[2].best_score.v = 250
    /\ PoolsOf(messages[1]) = {"advanced"} /\ PoolsOf(messages[2]) = {"advanced"}
    /\ progresses[1].nextLevel = 250 /\ progresses[2].nextLevel = 300

-----------------------------------------------------------------------------
(* Properties of the exported database object *)

\* C14 (as claimed): on the exported singleton every user operation, game
\* operation and base operation resolves to a callable method.
C14_EveryOperationCallable ==
    \A r \in resolved : r.type = "function"

-----------------------------------------------------------------------------
(* Properties of createOrGetUser *)

\* C15 (as claimed): under every interleaving, an INSERT is executed only
\* when the table has no row of its username at that moment, at most one
\* INSERT is executed per username, and every call that no connection error
\* interrupted returns the one row of its username.
C15_OneInsertPerUsername ==
    /\ \A i \in 1..Len(insertLog) : ~insertLog[i].existed
    /\ \A i, j \in 1..Len(insertLog) :
         insertLog[i].username = insertLog[j].username => i = j
    /\ \A c \in Callers :
         (callers[c].pc = "done" /\ callers[c].outcome.error # "connection_error")
         => /\ callers[c].outcome.completion = "resolved"
            /\ RowsOf(users, callers[c].username) = <<callers[c].outcome.row>>

-----------------------------------------------------------------------------
(* Properties of the server process *)

\* The event e is in the log.
Logged(e) == \E i \in DOMAIN log : log[i] = e

\* Every e in the log has a d before it.
Precedes(d, e) ==
    \A j \in DOMAIN log : log[j] = e => \E i \in 1..(j - 1) : log[i] = d

SignalsReceived == Cardinality({i \in DOMAIN log : log[i] = "signal"})

ServiceFailed ==
    Logged("database.testConnection rejected") \/ Logged("redisClient.connect rejected")

\* C16: the listener is started only after the database test and the Redis
\* connect both succeeded, and Redis connect is attempted only after the
\* database test succeeded; if either fails, initializeServices returns false
\* without raising, the only thing the process does next is to exit with
\* code 1, and the listener is never started nor a signal handler
\* registered.
C16_ListenOnlyWhenServicesReady ==
    /\ Precedes("database.testConnection resolved", "app.listen")
    /\ Precedes("redisClient.connect resolved", "app.listen")
    /\ Precedes("database.testConnection resolved", "redisClient.connect")
    /\ ServiceFailed
       => /\ servicesReady = "false"
          /\ ~Logged("app.listen") /\ ~Logged("app.listen threw")
          /\ ~Logged("process.on")
          /\ shutdowns = <<>>
          /\ IF Running THEN startPc = "initialized" /\ ENABLED ServicesNotReady
                        ELSE exitCode = <<1>>

\* C16 witness: the database test succeeded, Redis connect failed and the
\* process exited with 1.
C16_Witness ==
    /\ Logged("database.testConnection resolved")
    /\ Logged("redisClient.connect rejected")
    /\ exitCode = <<1>>

\* C17: after a single shutdown signal, database.close is called only after
\* the server finished closing, redisClient.quit only after database.close
\* succeeded, the process exits with 0 only after both succeeded, and if
\* database.close or redisClient.quit fails the exit code is 1.
C17_ShutdownInOrder ==
    SignalsReceived = 1
    => /\ Precedes("server.close", "server closed")
       /\ Precedes("server closed", "database.close")
       /\ Precedes("database.close resolved", "redisClient.quit")
       /\ Precedes("database.close resolved", "process.exit(0)")
       /\ Precedes("redisClient.quit resolved", "process.exit(0)")
       /\ exitCode = <<0>> => Logged("process.exit(0)")
       /\ (Logged("database.close rejected") \/ Logged("redisClient.quit rejected"))
          => exitCode = <<1>>

\* C17 witness: one signal, and the process exited with 0 after the server,
\* the pool and Redis were closed.
C17_Witness ==
    /\ SignalsReceived = 1
    /\ log[Len(log)] = "process.exit(0)"
    /\ exitCode = <<0>>

\* C18: once a shutdown signal is received the process eventually exits; an
\* exit by the force-close timer has code 1, and the exit code is 0 only when
\* redisClient.quit resolved before any timer fired.
C18_AlwaysExits ==
    /\ (shutdowns # <<>>) ~> (exitCode # <<>>)
    /\ [](Logged("timer fired") => exitCode = <<1>>)
    /\ [](exitCode = <<0>>
          => Logged("redisClient.quit resolved") /\ ~Logged("timer fired"))

\* C18 witness: the server never finished closing and the timer ended the
\* process with 1.
C18_Witness ==
    /\ Len(shutdowns) = 1
    /\ shutdowns[1].pc = "server.close"
    /\ shutdowns[1].timer = "fired"
    /\ exitCode = <<1>>

-----------------------------------------------------------------------------
(* Properties of Database.transaction *)

\* The operation was done on the client of tx and ended as ok says.
Did(tx, name, ok) == \E i \in DOMAIN tx.ops : tx.ops[i] = Op(name, ok)

\* The operation was sent on the client of tx, answered or not yet.
Issued(tx, name) == Did(tx, name, TRUE) \/ Did(tx, name, FALSE) \/ tx.pc = name

\* How many times the operation was done on the client of tx.
Times(tx, name) == Cardinality({i \in DOMAIN tx.ops : tx.ops[i].op = name})

\* C19: COMMIT is issued only after BEGIN and the callback succeeded;
\* ROLLBACK is issued exactly when BEGIN, the callback or COMMIT failed, and
\* never after a successful COMMIT; the transaction resolves, with the
\* callback's result, only when COMMIT succeeded.
C19_CommitAndRollback ==
    \A t \in Transactions :
        LET tx == transactions[t]
        IN  /\ Issued(tx, "COMMIT")
               => /\ Len(tx.ops) >= 2
                  /\ tx.ops[1] = Op("BEGIN", TRUE)
                  /\ tx.ops[2] = Op("callback", TRUE)
            /\ Issued(tx, "ROLLBACK")
               <=> \/ Did(tx, "BEGIN", FALSE)
                   \/ Did(tx, "callback", FALSE)
                   \/ Did(tx, "COMMIT", FALSE)
            /\ Did(tx, "COMMIT", TRUE) => ~Issued(tx, "ROLLBACK")
            /\ Times(tx, "ROLLBACK") <= 1
            /\ tx.outcome.completion = "resolved"
               => /\ Did(tx, "COMMIT", TRUE)
                  /\ tx.result \in CallbackResults
                  /\ tx.outcome.value = tx.result
            /\ (tx.pc = "done" /\ Did(tx, "COMMIT", TRUE))
               => tx.outcome.completion = "resolved"

\* C19 witness: a COMMIT failed, the ROLLBACK after it succeeded and the
\* transaction rejected.
C19_Witness ==
    \E t \in Transactions :
        /\ transactions[t].ops =
             <<Op("BEGIN", TRUE), Op("callback", TRUE), Op("COMMIT", FALSE),
               Op("ROLLBACK", TRUE), Op("release", TRUE)>>
        /\ transactions[t].outcome.completion = "rejected"

\* A transaction that got a client releases it exactly once, as the last
\* operation on it, on every path; one whose pool.connect failed does
\* nothing on any client.
ReleasedOnceAtTheEnd(tx) ==
    /\ tx.outcome.error = "connect" => tx.ops = <<>>
    /\ tx.pc # "done" => Times(tx, "release") = 0
    /\ (tx.pc = "done" /\ tx.outcome.error # "connect")
       => /\ Times(tx, "release") = 1
          /\ tx.ops[Len(tx.ops)] = Op("release", TRUE)
          /\ \/ Did(tx, "COMMIT", TRUE)
             \/ Did(tx, "ROLLBACK", TRUE)
             \/ Did(tx, "ROLLBACK", FALSE)

\* The transactions that were called and have not settled.
InProgress == {t \in Transactions : transactions[t].pc \notin {"idle", "done"}}

\* The transactions between the success of pool.connect and the release.
HoldingClient == {t \in Transactions : transactions[t].client # 0}

\* C20 (as claimed): the client is released exactly once on every path, as
\* the last operation on it, nothing is done when pool.connect fails, and the
\* number of clients held out of the pool equals the number of transactions
\* still in progress.
C20_HeldEqualsInProgress ==
    /\ \A t \in Transactions : ReleasedOnceAtTheEnd(transactions[t])
    /\ Cardinality(held) = Cardinality(InProgress)

\* C20 (amended): as claimed, but the clients held are those of the
\* transactions in progress that pool.connect has already answered; a
\* transaction still waiting for pool.connect holds none.
C20_HeldEqualsConnected ==
    /\ \A t \in Transactions : ReleasedOnceAtTheEnd(transactions[t])
    /\ HoldingClient = {t \in InProgress : transactions[t].pc # "connect"}
    /\ held = {transactions[t].client : t \in HoldingClient}
    /\ Cardinality(held) = Cardinality(HoldingClient)

\* C20 witness: one transaction released its client after a failed ROLLBACK,
\* another is in its callback and holds the only client out of the pool.
C20_Witness ==
    \E t, u \in Transactions :
        /\ transactions[t].pc = "done"
        /\ Did(transactions[t], "ROLLBACK", FALSE)
        /\ transactions[t].ops[Len(transactions[t].ops)] = Op("release", TRUE)
        /\ transactions[u].pc = "callback"
        /\ held = {transactions[u].client}

\* C21 (as claimed): when BEGIN, the callback or COMMIT failed, the error the
\* transaction rejects with is that failure, whether the ROLLBACK that
\* follows succeeds or fails.
C21_RejectsWithOriginalError ==
    \A t \in Transactions :
        LET tx == transactions[t]
        IN  (tx.pc = "done" /\ tx.error \in {"BEGIN", "callback", "COMMIT"})
            => /\ tx.outcome.completion = "rejected"
               /\ tx.outcome.error = tx.error

-----------------------------------------------------------------------------
(* Properties of getUserAchievements along statistics updates *)

CountAndScoreIds ==
    {"ten_games", "fifty_games", "hundred_games", "score_100", "score_200", "score_300"}

\* The groups of tiers, each from the lowest tier to the highest.
TierGroups ==
    {<<"ten_games", "fifty_games", "hundred_games">>,
     <<"score_100", "score_200", "score_300">>,
     <<"speed_demon", "lightning_fast">>,
     <<"top_ten", "podium", "champion">>}

\* In a set of ids, a tier is present only together with the lower tiers of
\* its group.
LowerTiersPresent(ids) ==
    \A group \in TierGroups :
        \A k \in DOMAIN group :
            group[k] \in ids => \A j \in 1..(k - 1) : group[j] \in ids

\* C22: along statistics updates in which total_games and best_score never
\* decrease, the count and score ids returned never lose an id from one
\* evaluation to the next, and in every evaluation a higher tier is present
\* only together with all lower tiers of its group.
C22_AchievementsNeverLost ==
    /\ \A i \in 1..(Len(evaluations) - 1) :
         IdsOf(evaluations[i]) \cap CountAndScoreIds
             \subseteq IdsOf(evaluations[i + 1]) \cap CountAndScoreIds
    /\ \A i \in 1..Len(evaluations) :
         /\ evaluations[i].completion = "resolved"
         /\ LowerTiersPresent(IdsOf(evaluations[i]))

\* C22 witness: ten_games and score_100 were returned first, and after an
\* update both again, with fifty_games, score_200 and champion, podium and
\* top_ten.
C22_Witness ==
    /\ Len(evaluations) >= 2
    /\ IdsOf(evaluations[1]) \cap CountAndScoreIds = {"ten_games", "score_100"}
    /\ IdsOf(evaluations[2]) \cap CountAndScoreIds
         = {"ten_games", "fifty_games", "score_100", "score_200"}
    /\ RankIds \subseteq IdsOf(evaluations[2])

=============================================================================
